---------------------------- MODULE Spec2Model ----------------------------
(***************************************************************************)
(* Model of the patient allocator: allocate_patients (src/allocation.py)  *)
(* stepped one loop iteration at a time over Physician records            *)
(* (src/models.py).  A physician's name is its position in the roster, so *)
(* names are unique and roster order is the order of the names.           *)
(***************************************************************************)
EXTENDS Integers, Sequences, FiniteSets, TLC

(* ------------------------------ bounds -------------------------------- *)
MaxUnits == 2
MaxPool == 1
MaxStepDown == 1

Teams == {"A", "B", "N"}

VARIABLES
    physicians,               \* name -> Physician record (the roster, mutated in place)
    initial_counts,           \* snapshot of total_patients   (allocation.py:32)
    initial_stepdown_counts,  \* snapshot of step_down_patients (allocation.py:44)
    n_total_new_patients,
    n_A_new_patients,
    n_B_new_patients,
    n_N_new_patients,
    n_step_down_patients,
    new_start_number,
    minimum_patients,
    maximum_patients,
    pc,                       \* position in allocate_patients
    order,                    \* the list the current for-loop iterates (names)
    idx,                      \* position of the current for-loop in order
    needed,                   \* Phase 3: the while loop's needed
    non_new_physicians,       \* Phase 4: list of eligible names (allocation.py:172)
    sorted_physicians,        \* Phase 4: allocation.py:200
    target_total_gains,       \* Phase 4: name -> target total gain
    target_additional_gains,  \* Phase 4: name -> target additional gain
    patients_to_distribute,   \* Phase 4: what the target ladder has still to hand out
    gains_at_targets,         \* Phase 4: current_gains as the targets were computed from it
    iteration,                \* Phase 4 distribution loop counter
    max_iterations,
    remaining_after_targets,
    made_progress,
    remaining_final,
    raised,                   \* an exception left the call
    call,                     \* the last step taken (label and what it gave)
    phase3_entry,             \* Phase 3: name -> total and own pool when its loop began
    data_file,                \* data_manager: DATA_FILE, whether it exists and its rows
    input                     \* the arguments of the call, as passed

\* The names of the roster: physician k of the list is named k
Names == DOMAIN physicians

poolVars == <<n_total_new_patients, n_A_new_patients, n_B_new_patients,
              n_N_new_patients>>
paramVars == <<new_start_number, minimum_patients, maximum_patients, input,
               initial_counts, initial_stepdown_counts>>
p4Vars == <<non_new_physicians, sorted_physicians, target_total_gains,
            target_additional_gains,
                   patients_to_distribute, gains_at_targets, iteration, max_iterations,
            remaining_after_targets, made_progress, remaining_final>>
vars == <<physicians, poolVars, n_step_down_patients, paramVars, pc, order,
          idx, needed, p4Vars, raised, call, phase3_entry, data_file>>

(* ------------------------- Physician (models.py) ---------------------- *)
Physician(name, is_new, team, total, step_down, is_buffer, is_working) ==
    [name |-> name, is_new |-> is_new, team |-> team,
     is_buffer |-> is_buffer, is_working |-> is_working, yesterday |-> "",
     total_patients |-> total, step_down_patients |-> step_down,
     transferred_patients |-> 0, traded_patients |-> 0]

\* add_patient as the prototype wrote it: a step-down patient also counts
\* towards total_patients
add_patient_census(p, is_step_down) ==
    IF is_step_down
    THEN [p EXCEPT !.total_patients = @ + 1, !.step_down_patients = @ + 1]
    ELSE [p EXCEPT !.total_patients = @ + 1]

add_patient(p, is_step_down) ==
    IF is_step_down
    THEN [p EXCEPT !.step_down_patients = @ + 1]
    ELSE [p EXCEPT !.total_patients = @ + 1]

\* remove_patient as the prototype wrote it: only total_patients is checked,
\* and a step-down removal decrements both counters
remove_patient_census(p, is_step_down) ==
    IF p.total_patients < 1
    THEN [p |-> p, raised |-> TRUE]
    ELSE [p |-> IF is_step_down
                THEN [p EXCEPT !.total_patients = @ - 1, !.step_down_patients = @ - 1]
                ELSE [p EXCEPT !.total_patients = @ - 1],
          raised |-> FALSE]

\* remove_patient: the physician afterwards, and whether the call raised
remove_patient(p, is_step_down) ==
    IF is_step_down
    THEN IF p.step_down_patients < 1
         THEN [p |-> p, raised |-> TRUE]
         ELSE [p |-> [p EXCEPT !.step_down_patients = @ - 1], raised |-> FALSE]
    ELSE IF p.total_patients < 1
         THEN [p |-> p, raised |-> TRUE]
         ELSE [p |-> [p EXCEPT !.total_patients = @ - 1], raised |-> FALSE]

\* k calls of add_patient()
RECURSIVE add_patients(_, _)
add_patients(p, k) ==
    IF k <= 0 THEN p ELSE add_patients(add_patient(p, FALSE), k - 1)

set_total_patients(p, n) == [p EXCEPT !.total_patients = n]

(* ------------------------------ helpers ------------------------------- *)
Min(a, b) == IF a < b THEN a ELSE b
Max(a, b) == IF a > b THEN a ELSE b

RECURSIVE SumOver(_, _)
SumOver(f, S) ==
    IF S = {} THEN 0
    ELSE LET x == CHOOSE y \in S : TRUE IN f[x] + SumOver(f, S \ {x})

Range(s) == {s[i] : i \in DOMAIN s}

\* tuple comparison of two keys (sequences of integers of equal length)
RECURSIVE LexLess(_, _)
LexLess(a, b) ==
    IF Len(a) = 0 THEN FALSE
    ELSE IF Head(a) # Head(b) THEN Head(a) < Head(b)
    ELSE LexLess(Tail(a), Tail(b))

\* Python's sorted(s, key=...): stable, ascending by key[name]
StableSort(s, key) ==
    LET rank(i) == 1 + Cardinality({j \in DOMAIN s :
                        \/ LexLess(key[s[j]], key[s[i]])
                        \/ (~LexLess(key[s[i]], key[s[j]]) /\ j < i)})
    IN  [k \in 1..Len(s) |-> s[CHOOSE i \in DOMAIN s : rank(i) = k]]

\* Python's sorted(s, key=..., reverse=True): descending, equal keys keep their order
StableSortReverse(s, key) ==
    LET rank(i) == 1 + Cardinality({j \in DOMAIN s :
                        \/ LexLess(key[s[i]], key[s[j]])
                        \/ (~LexLess(key[s[j]], key[s[i]]) /\ j < i)})
    IN  [k \in 1..Len(s) |-> s[CHOOSE i \in DOMAIN s : rank(i) = k]]

\* the list physicians, as names in list order
roster == [i \in 1..Cardinality(Names) |-> i]

team_list(t) == SelectSeq(roster, LAMBDA n : physicians[n].team = t)
team_A == team_list("A")
team_B == team_list("B")
team_N == team_list("N")

\* can_take_patient with the comparison off by one
can_take_patient_inclusive(p) == p.total_patients <= maximum_patients

can_take_patient(p) == p.total_patients < maximum_patients

can_take_step_down(p) ==
    LET initial_sd == initial_stepdown_counts[p.name]
        gained_stepdown == p.step_down_patients - initial_sd
    IN  gained_stepdown < 1

PoolOf(t) ==
    CASE t = "A" -> n_A_new_patients
      [] t = "B" -> n_B_new_patients
      [] t = "N" -> n_N_new_patients
      [] OTHER -> 0

\* TakeFrom with the Team N branch missing its "n_total_new_patients -= 1"
TakeFrom_N_unmirrored(t, k) ==
    /\ n_A_new_patients' = IF t = "A" THEN n_A_new_patients - k ELSE n_A_new_patients
    /\ n_B_new_patients' = IF t = "B" THEN n_B_new_patients - k ELSE n_B_new_patients
    /\ n_N_new_patients' = IF t = "N" THEN n_N_new_patients - k ELSE n_N_new_patients
    /\ n_total_new_patients' = IF t = "N" THEN n_total_new_patients
                                ELSE n_total_new_patients - k

\* "physician.add_patient(); n_X_new_patients -= k; n_total_new_patients -= k"
TakeFrom(t, k) ==
    /\ n_A_new_patients' = IF t = "A" THEN n_A_new_patients - k ELSE n_A_new_patients
    /\ n_B_new_patients' = IF t = "B" THEN n_B_new_patients - k ELSE n_B_new_patients
    /\ n_N_new_patients' = IF t = "N" THEN n_N_new_patients - k ELSE n_N_new_patients
    /\ n_total_new_patients' = n_total_new_patients - k

(* ----------------------- allocate_patients: entry ---------------------- *)
\* the snapshot of line 32 taken of the wrong counter (that of line 44)
snapshot_counts_stepdown(ps) == [n \in DOMAIN ps |-> ps[n].step_down_patients]

\* initial_counts = {p.name: p.total_patients for p in physicians}
snapshot_counts(ps) == [n \in DOMAIN ps |-> ps[n].total_patients]

\* initial_stepdown_counts = {p.name: p.step_down_patients for p in physicians}
snapshot_stepdown_counts(ps) == [n \in DOMAIN ps |-> ps[n].step_down_patients]

working(list) == SelectSeq(list, LAMBDA n : physicians[n].is_working)

\* the Phase 1 sort key negated, the lists sorted highest count first
stepdown_key_descending == [n \in Names |-> <<0 - initial_stepdown_counts[n]>>]

\* key=lambda x: initial_stepdown_counts.get(x.name, x.step_down_patients)
stepdown_key == [n \in Names |-> <<initial_stepdown_counts[n]>>]

\* the first Phase 1 list built from working_team_A, the line of Team A copied
team_B_sorted_from_A == StableSort(working(team_A), stepdown_key)

team_B_sorted == StableSort(working(team_B), stepdown_key)
team_A_sorted == StableSort(working(team_A), stepdown_key)

NoCall == [op |-> "none", who |-> 0, is_step_down |-> FALSE]

\* DATA_FILE before anything was saved: os.path.exists(DATA_FILE) is false
NoFile == [exists |-> FALSE, rows |-> <<>>]

\* The state when allocate_patients is entered with roster ps, the five pools
\* and the three parameters, after the snapshots and the Phase 1 sort of Team B.
EntryAt(label, ps, tot, a, b, n, sd, new_start, minimum, maximum) ==
    /\ physicians = ps
    /\ initial_counts = snapshot_counts(ps)
    /\ initial_stepdown_counts = snapshot_stepdown_counts(ps)
    /\ n_total_new_patients = tot
    /\ n_A_new_patients = a
    /\ n_B_new_patients = b
    /\ n_N_new_patients = n
    /\ n_step_down_patients = sd
    /\ new_start_number = new_start
    /\ minimum_patients = minimum
    /\ maximum_patients = maximum
    /\ input = [physicians |-> ps, n_total_new_patients |-> tot,
                n_A_new_patients |-> a, n_B_new_patients |-> b,
                n_N_new_patients |-> n, n_step_down_patients |-> sd]
    /\ pc = label
    /\ order = team_B_sorted
    /\ idx = 1
    /\ needed = 0
    /\ non_new_physicians = <<>>
    /\ sorted_physicians = <<>>
    /\ target_total_gains = <<>>
    /\ target_additional_gains = <<>>
    /\ patients_to_distribute = 0
    /\ gains_at_targets = <<>>
    /\ iteration = 0
    /\ max_iterations = 0
    /\ remaining_after_targets = 0
    /\ made_progress = FALSE
    /\ remaining_final = 0
    /\ raised = FALSE
    /\ call = NoCall
    /\ phase3_entry = <<>>
    /\ data_file = NoFile

Entry(ps, tot, a, b, n, sd, new_start, minimum, maximum) ==
    EntryAt("phase1_B", ps, tot, a, b, n, sd, new_start, minimum, maximum)

(* ------------------------ Phase 1: step-down --------------------------- *)
\* Phase1Visit without "n_step_down_patients -= 1"
Phase1Visit_keeps_pool(p, pool) ==
    IF can_take_step_down(p)
    THEN [p |-> add_patient(p, TRUE), pool |-> pool]
    ELSE [p |-> p, pool |-> pool]

\* Phase1Visit as a loop "while n_step_down_patients > 0" without the
\* can_take_step_down check: the physician visited takes the whole pool
Phase1Visit_drains(p, pool) ==
    [p |-> [p EXCEPT !.step_down_patients = @ + pool], pool |-> 0]

\* One visit of a Phase 1 loop body (allocation.py:66-68 and 77-79): the
\* physician and the step-down pool afterwards.
Phase1Visit(p, pool) ==
    IF can_take_step_down(p)
    THEN [p |-> add_patient(p, TRUE), pool |-> pool - 1]
    ELSE [p |-> p, pool |-> pool]

Phase1_B ==
    /\ pc = "phase1_B"
    /\ IF idx <= Len(order) /\ ~(n_step_down_patients <= 0)
       THEN LET r == Phase1Visit(physicians[order[idx]], n_step_down_patients)
            IN  /\ physicians' = [physicians EXCEPT ![order[idx]] = r.p]
                /\ n_step_down_patients' = r.pool
                /\ idx' = idx + 1
                /\ UNCHANGED <<pc, order>>
       ELSE /\ IF n_step_down_patients > 0
               THEN pc' = "phase1_A" /\ order' = team_A_sorted
               ELSE pc' = "phase2" /\ order' = roster
            /\ idx' = 1
            /\ UNCHANGED <<physicians, n_step_down_patients>>
    /\ UNCHANGED <<poolVars, paramVars, needed, p4Vars, raised, call, phase3_entry, data_file>>

Phase1_A ==
    /\ pc = "phase1_A"
    /\ IF idx <= Len(order) /\ ~(n_step_down_patients <= 0)
       THEN LET r == Phase1Visit(physicians[order[idx]], n_step_down_patients)
            IN  /\ physicians' = [physicians EXCEPT ![order[idx]] = r.p]
                /\ n_step_down_patients' = r.pool
                /\ idx' = idx + 1
                /\ UNCHANGED <<pc, order>>
       ELSE /\ pc' = "phase2"
            /\ order' = roster
            /\ idx' = 1
            /\ UNCHANGED <<physicians, n_step_down_patients>>
    /\ UNCHANGED <<poolVars, paramVars, needed, p4Vars, raised, call, phase3_entry, data_file>>

(* --------------------- Phase 2: below-minimum fix ---------------------- *)
\* Phase2Fill without the can_take_patient test inside the loop: every one of
\* the k iterations adds a patient
Phase2Fill_unchecked(total, k) == IF k <= 0 THEN 0 ELSE k

\* The inner for loop (allocation.py:91-97): the number of units the physician
\* receives in k iterations starting from total_patients = total.
RECURSIVE Phase2Fill(_, _)
Phase2Fill(total, k) ==
    IF k <= 0 THEN 0
    ELSE IF total < maximum_patients
         THEN 1 + Phase2Fill(total + 1, k - 1)
         ELSE 0

\* Phase2Units without "if physician.is_new: continue"
Phase2Units_new_too(p) ==
    LET threshold == minimum_patients - 2
    IN  IF p.total_patients <= threshold /\ can_take_patient(p)
        THEN IF p.team \in Teams
             THEN Phase2Fill(p.total_patients,
                             Min(minimum_patients - p.total_patients, PoolOf(p.team)))
             ELSE 0
        ELSE 0

\* Phase2Units with needed computed from the threshold instead of the minimum
Phase2Units_to_threshold(p) ==
    LET threshold == minimum_patients - 2
    IN  IF p.is_new THEN 0
        ELSE IF p.total_patients <= threshold /\ can_take_patient(p)
             THEN IF p.team \in Teams
                  THEN Phase2Fill(p.total_patients,
                                  Min(threshold - p.total_patients, PoolOf(p.team)))
                  ELSE 0
             ELSE 0

\* Units one physician receives in Phase 2 (allocation.py:86-113)
Phase2Units(p) ==
    LET threshold == minimum_patients - 2
    IN  IF p.is_new THEN 0
        ELSE IF p.total_patients <= threshold /\ can_take_patient(p)
             THEN IF p.team \in Teams
                  THEN Phase2Fill(p.total_patients,
                                  Min(minimum_patients - p.total_patients, PoolOf(p.team)))
                  ELSE 0
             ELSE 0

Phase2 ==
    /\ pc = "phase2"
    /\ IF idx <= Len(order)
       THEN LET n == order[idx]
                g == Phase2Units(physicians[n])
            IN  /\ physicians' = [physicians EXCEPT ![n] = add_patients(@, g)]
                /\ TakeFrom(physicians[n].team, g)
                /\ idx' = idx + 1
                /\ UNCHANGED pc
       ELSE /\ pc' = "phase3"
            /\ idx' = 1
            /\ UNCHANGED <<physicians, poolVars>>
    /\ UNCHANGED <<order, n_step_down_patients, paramVars, needed, p4Vars, raised, call, phase3_entry, data_file>>

(* ---------------------- Phase 3: new physicians ------------------------ *)
\* Phase3Source without the own-team branch: always the first non-empty pool
\* of A, B, N
Phase3Source_A_first(p) ==
    IF n_A_new_patients > 0 THEN "A"
    ELSE IF n_B_new_patients > 0 THEN "B"
    ELSE IF n_N_new_patients > 0 THEN "N"
    ELSE "none"

\* The pool one iteration of the while loop takes from (allocation.py:126-165):
\* the physician's own team pool, else the first non-empty of A, B, N.
Phase3Source(p) ==
    IF p.team = "A" /\ n_A_new_patients > 0 THEN "A"
    ELSE IF p.team = "B" /\ n_B_new_patients > 0 THEN "B"
    ELSE IF p.team = "N" /\ n_N_new_patients > 0 THEN "N"
    ELSE IF n_A_new_patients > 0 THEN "A"
    ELSE IF n_B_new_patients > 0 THEN "B"
    ELSE IF n_N_new_patients > 0 THEN "N"
    ELSE "none"

\* Phase3Needed computed from the wrong parameter, minimum_patients
Phase3Needed_minimum(p) ==
    IF p.is_new THEN minimum_patients - p.total_patients ELSE 0

\* needed = new_start_number - physician.total_patients, for a new physician
Phase3Needed(p) ==
    IF p.is_new THEN new_start_number - p.total_patients ELSE 0

\* What the while loop of a new physician starts from (allocation.py:119-123):
\* its total_patients and its own team pool when the loop is entered
Phase3Enter(p) ==
    [n \in DOMAIN phase3_entry \cup {p.name} |->
        IF n = p.name
        THEN [total |-> p.total_patients, pool |-> PoolOf(p.team)]
        ELSE phase3_entry[n]]

Phase3 ==
    /\ pc = "phase3"
    /\ IF idx <= Len(order)
       THEN IF Phase3Needed(physicians[order[idx]]) <= 0
            THEN /\ idx' = idx + 1
                 /\ UNCHANGED <<pc, needed, phase3_entry>>
            ELSE /\ needed' = Phase3Needed(physicians[order[idx]])
                 /\ phase3_entry' = Phase3Enter(physicians[order[idx]])
                 /\ pc' = "phase3_fill"
                 /\ UNCHANGED idx
       ELSE /\ pc' = "phase4"
            /\ idx' = 1
            /\ UNCHANGED <<needed, phase3_entry>>
    /\ UNCHANGED <<physicians, poolVars, order, n_step_down_patients, paramVars,
                   p4Vars, raised, call, data_file>>

Phase3_fill ==
    /\ pc = "phase3_fill"
    /\ LET n == order[idx]
           src == Phase3Source(physicians[n])
       IN  IF needed > 0 /\ can_take_patient(physicians[n]) /\ src # "none"
           THEN /\ physicians' = [physicians EXCEPT ![n] = add_patient(@, FALSE)]
                /\ TakeFrom(src, 1)
                /\ needed' = needed - 1
                /\ UNCHANGED <<pc, idx>>
           ELSE /\ pc' = "phase3"
                /\ idx' = idx + 1
                /\ UNCHANGED <<physicians, poolVars, needed>>
    /\ UNCHANGED <<order, n_step_down_patients, paramVars, p4Vars, raised, call, phase3_entry, data_file>>

(* ---------------------- Phase 4: even distribution --------------------- *)
\* [p for p in physicians if not p.is_new and can_take_patient(p)]
eligible_non_new(list) ==
    SelectSeq(list, LAMBDA n : ~physicians[n].is_new /\ can_take_patient(physicians[n]))

\* key=lambda x: x.total_patients
total_key == [n \in Names |-> <<physicians[n].total_patients>>]

\* key=lambda x: (initial_counts.get(x.name, x.total_patients), x.total_patients)
initial_key == [n \in Names |-> <<initial_counts[n], physicians[n].total_patients>>]

current_gain(n) == physicians[n].total_patients - initial_counts[n]

Remaining == n_A_new_patients + n_B_new_patients + n_N_new_patients

Phase4 ==
    /\ pc = "phase4"
    /\ non_new_physicians' = eligible_non_new(roster)
    /\ LET team_N_non_new == eligible_non_new(team_N)
       IN  IF team_N_non_new # <<>> /\ n_N_new_patients > 0
           THEN /\ order' = StableSort(team_N_non_new, total_key)
                /\ pc' = "phase4_N"
           ELSE /\ pc' = "phase4_targets"
                /\ UNCHANGED order
    /\ idx' = 1
    /\ UNCHANGED <<physicians, poolVars, n_step_down_patients, paramVars, needed,
                   sorted_physicians, target_total_gains, target_additional_gains,
                   patients_to_distribute, gains_at_targets,
                   iteration, max_iterations, remaining_after_targets,
                   made_progress, remaining_final, raised, call, phase3_entry, data_file>>

\* Team N priority loop (allocation.py:181-188)
Phase4_N ==
    /\ pc = "phase4_N"
    /\ IF idx <= Len(order) /\ ~(n_N_new_patients <= 0)
       THEN /\ IF can_take_patient(physicians[order[idx]])
               THEN /\ physicians' = [physicians EXCEPT ![order[idx]] = add_patient(@, FALSE)]
                    /\ TakeFrom("N", 1)
               ELSE UNCHANGED <<physicians, poolVars>>
            /\ idx' = idx + 1
            /\ UNCHANGED pc
       ELSE /\ pc' = "phase4_targets"
            /\ idx' = 1
            /\ UNCHANGED <<physicians, poolVars>>
    /\ UNCHANGED <<order, n_step_down_patients, paramVars, needed, p4Vars, raised, call, phase3_entry, data_file>>

\* TargetTotalGains with the extra unit given to the last remainder_final
\* physicians of the list instead of the first
TargetTotalGains_last_first(sorted) ==
    LET num_physicians == Len(sorted)
        total_current_gains_sum ==
            SumOver([n \in Range(sorted) |-> current_gain(n)], Range(sorted))
        total_final_gains_needed == total_current_gains_sum + Remaining
        base_final_gain == total_final_gains_needed \div num_physicians
        remainder_final == total_final_gains_needed % num_physicians
    IN  [n \in Range(sorted) |->
            LET i == (CHOOSE k \in DOMAIN sorted : sorted[k] = n) - 1
            IN  IF i >= num_physicians - remainder_final
                THEN base_final_gain + 1 ELSE base_final_gain]

\* target_total_gains (allocation.py:241-253) for the list sorted
TargetTotalGains(sorted) ==
    LET num_physicians == Len(sorted)
        total_current_gains_sum ==
            SumOver([n \in Range(sorted) |-> current_gain(n)], Range(sorted))
        total_final_gains_needed == total_current_gains_sum + Remaining
        base_final_gain == total_final_gains_needed \div num_physicians
        remainder_final == total_final_gains_needed % num_physicians
    IN  [n \in Range(sorted) |->
            LET i == (CHOOSE k \in DOMAIN sorted : sorted[k] = n) - 1
            IN  IF i < remainder_final THEN base_final_gain + 1 ELSE base_final_gain]

\* target_additional_gains[...] += 1 for the first k physicians of the list
GiveRound(additional, list, k) ==
    [n \in DOMAIN additional |->
        IF \E i \in 1..Min(k, Len(list)) : list[i] = n
        THEN additional[n] + 1 ELSE additional[n]]

\* key of sorted_by_additional (allocation.py:211-215 and 231-235)
additional_key ==
    [n \in Names |->
        IF n \in DOMAIN target_additional_gains
        THEN <<target_additional_gains[n], initial_counts[n], physicians[n].total_patients>>
        ELSE <<0, initial_counts[n], physicians[n].total_patients>>]

\* allocation.py:191-227: current_gains, the sort, and the start of the target
\* ladder (with at least as many patients as physicians, its first round)
Phase4_targets ==
    /\ pc = "phase4_targets"
    /\ IF Remaining > 0 /\ non_new_physicians # <<>>
       THEN LET sorted == StableSort(non_new_physicians, initial_key)
                zero == [n \in Range(sorted) |-> 0]
                first == IF Len(sorted) > Remaining THEN 0
                         ELSE Min(Remaining, Len(sorted))
            IN  /\ sorted_physicians' = sorted
                /\ gains_at_targets' = [n \in Range(sorted) |-> current_gain(n)]
                /\ target_additional_gains' = GiveRound(zero, sorted, first)
                /\ patients_to_distribute' = Remaining - first
                /\ pc' = "phase4_ladder"
                /\ UNCHANGED <<order, idx, target_total_gains, remaining_after_targets,
                               max_iterations, iteration>>
       ELSE /\ pc' = "phase5"
            /\ order' = roster
            /\ idx' = 1
            /\ UNCHANGED <<sorted_physicians, target_total_gains, target_additional_gains,
                           patients_to_distribute, gains_at_targets,
                           remaining_after_targets, max_iterations, iteration>>
    /\ UNCHANGED <<physicians, poolVars, n_step_down_patients, paramVars, needed,
                   non_new_physicians, made_progress, remaining_final, raised, call, phase3_entry, data_file>>

\* "while patients_to_distribute > 0" of the target ladder, one iteration per
\* step (allocation.py:208-219 and 229-239); when it ends, the normalized
\* targets that replace the ladder's (allocation.py:241-264)
Phase4_ladder ==
    /\ pc = "phase4_ladder"
    /\ IF patients_to_distribute > 0
       THEN LET sorted_by_additional == StableSort(sorted_physicians, additional_key)
            IN  /\ target_additional_gains' =
                       GiveRound(target_additional_gains, sorted_by_additional,
                                 patients_to_distribute)
                /\ patients_to_distribute' =
                       patients_to_distribute
                         - Min(patients_to_distribute, Len(sorted_by_additional))
                /\ UNCHANGED <<pc, target_total_gains, remaining_after_targets,
                               max_iterations, iteration>>
       ELSE LET targets == TargetTotalGains(sorted_physicians)
            IN  /\ target_total_gains' = targets
                /\ target_additional_gains' =
                       [n \in Range(sorted_physicians) |->
                           Max(0, targets[n] - gains_at_targets[n])]
                /\ remaining_after_targets' = Remaining
                /\ max_iterations' = Remaining * 3
                /\ iteration' = 0
                /\ pc' = "phase4_loop"
                /\ UNCHANGED patients_to_distribute
    /\ UNCHANGED <<physicians, poolVars, n_step_down_patients, paramVars, needed,
                   order, idx, non_new_physicians, sorted_physicians, gains_at_targets,
                   made_progress, remaining_final, raised, call, phase3_entry, data_file>>

\* while remaining_after_targets > 0 and iteration < max_iterations (allocation.py:266-268)
Phase4_loop ==
    /\ pc = "phase4_loop"
    /\ IF remaining_after_targets > 0 /\ iteration < max_iterations
       THEN /\ iteration' = iteration + 1
            /\ made_progress' = FALSE
            /\ order' = sorted_physicians
            /\ idx' = 1
            /\ pc' = "phase4_pass"
       ELSE /\ pc' = "phase4_final_setup"
            /\ UNCHANGED <<iteration, made_progress, order, idx>>
    /\ UNCHANGED <<physicians, poolVars, n_step_down_patients, paramVars, needed,
                   non_new_physicians, sorted_physicians, target_total_gains,
                   target_additional_gains,
                   patients_to_distribute, gains_at_targets, max_iterations, remaining_after_targets,
                   remaining_final, raised, call, phase3_entry, data_file>>

\* Phase4Source with a buffer physician going straight to the other-pool
\* chain A, B, N, its own team pool not tried first
Phase4Source_buffer_any(p) ==
    LET target_total_gain == target_total_gains[p.name]
        actual_current_gain == p.total_patients - initial_counts[p.name]
    IN  IF p.is_new THEN "none"
        ELSE IF target_total_gain - actual_current_gain <= 0 \/ ~can_take_patient(p)
        THEN "none"
        ELSE IF ~p.is_buffer /\ p.team = "A" /\ n_A_new_patients > 0 THEN "A"
        ELSE IF ~p.is_buffer /\ p.team = "B" /\ n_B_new_patients > 0 THEN "B"
        ELSE IF ~p.is_buffer /\ p.team = "N" /\ n_N_new_patients > 0 THEN "N"
        ELSE IF n_A_new_patients > 0 THEN "A"
        ELSE IF n_B_new_patients > 0 THEN "B"
        ELSE IF n_N_new_patients > 0 THEN "N"
        ELSE "none"

\* Phase4Source with can_use_other_pools = physician.is_buffer only: a
\* physician that is no buffer never draws from another team's pool
Phase4Source_buffer_only(p) ==
    LET target_total_gain == target_total_gains[p.name]
        actual_current_gain == p.total_patients - initial_counts[p.name]
    IN  IF p.is_new THEN "none"
        ELSE IF target_total_gain - actual_current_gain <= 0 \/ ~can_take_patient(p)
        THEN "none"
        ELSE IF p.team = "A" /\ n_A_new_patients > 0 THEN "A"
        ELSE IF p.team = "B" /\ n_B_new_patients > 0 THEN "B"
        ELSE IF p.team = "N" /\ n_N_new_patients > 0 THEN "N"
        ELSE IF ~p.is_buffer THEN "none"
        ELSE IF n_A_new_patients > 0 THEN "A"
        ELSE IF n_B_new_patients > 0 THEN "B"
        ELSE IF n_N_new_patients > 0 THEN "N"
        ELSE "none"

\* Phase4Source without the own-team branch: the first non-empty pool of
\* A, B, N whatever the physician's team
Phase4Source_pools_first(p) ==
    LET target_total_gain == target_total_gains[p.name]
        actual_current_gain == p.total_patients - initial_counts[p.name]
    IN  IF p.is_new THEN "none"
        ELSE IF target_total_gain - actual_current_gain <= 0 \/ ~can_take_patient(p)
        THEN "none"
        ELSE IF n_A_new_patients > 0 THEN "A"
        ELSE IF n_B_new_patients > 0 THEN "B"
        ELSE IF n_N_new_patients > 0 THEN "N"
        ELSE "none"

\* The pool one visit of the distribution loop takes from (allocation.py:271-348)
Phase4Source(p) ==
    LET target_total_gain == target_total_gains[p.name]
        actual_current_gain == p.total_patients - initial_counts[p.name]
        can_use_other_pools ==
            \/ p.is_buffer
            \/ (p.team = "A" /\ n_A_new_patients = 0)
            \/ (p.team = "B" /\ n_B_new_patients = 0)
            \/ (p.team = "N" /\ n_N_new_patients = 0)
    IN  IF p.is_new THEN "none"
        ELSE IF target_total_gain - actual_current_gain <= 0 \/ ~can_take_patient(p)
        THEN "none"
        ELSE IF p.team = "A" /\ n_A_new_patients > 0 THEN "A"
        ELSE IF p.team = "B" /\ n_B_new_patients > 0 THEN "B"
        ELSE IF p.team = "N" /\ n_N_new_patients > 0 THEN "N"
        ELSE IF ~can_use_other_pools THEN "none"
        ELSE IF n_A_new_patients > 0 THEN "A"
        ELSE IF n_B_new_patients > 0 THEN "B"
        ELSE IF n_N_new_patients > 0 THEN "N"
        ELSE "none"

\* Phase4_pass without "if not made_progress: break": a pass that assigned
\* nothing goes back to the while condition
Phase4_pass_no_break ==
    /\ pc = "phase4_pass"
    /\ IF idx <= Len(order)
       THEN LET n == order[idx]
                src == Phase4Source(physicians[n])
            IN  /\ IF src # "none"
                   THEN /\ physicians' = [physicians EXCEPT ![n] = add_patient(@, FALSE)]
                        /\ TakeFrom(src, 1)
                        /\ remaining_after_targets' = remaining_after_targets - 1
                        /\ made_progress' = TRUE
                   ELSE UNCHANGED <<physicians, poolVars, remaining_after_targets,
                                    made_progress>>
                /\ idx' = idx + 1
                /\ UNCHANGED pc
       ELSE /\ pc' = "phase4_loop"
            /\ remaining_after_targets' = Remaining
            /\ UNCHANGED <<physicians, poolVars, made_progress, idx>>
    /\ UNCHANGED <<order, n_step_down_patients, paramVars, needed, non_new_physicians,
                   sorted_physicians, target_total_gains, target_additional_gains,
                   patients_to_distribute, gains_at_targets,
                   iteration, max_iterations, remaining_final, raised, call, phase3_entry, data_file>>

\* One pass of "for physician in sorted_physicians", one physician per step
Phase4_pass ==
    /\ pc = "phase4_pass"
    /\ IF idx <= Len(order)
       THEN LET n == order[idx]
                src == Phase4Source(physicians[n])
            IN  /\ IF src # "none"
                   THEN /\ physicians' = [physicians EXCEPT ![n] = add_patient(@, FALSE)]
                        /\ TakeFrom(src, 1)
                        /\ remaining_after_targets' = remaining_after_targets - 1
                        /\ made_progress' = TRUE
                   ELSE UNCHANGED <<physicians, poolVars, remaining_after_targets,
                                    made_progress>>
                /\ idx' = idx + 1
                /\ UNCHANGED pc
       ELSE /\ IF ~made_progress
               THEN /\ pc' = "phase4_final_setup"
                    /\ UNCHANGED remaining_after_targets
               ELSE /\ pc' = "phase4_loop"
                    /\ remaining_after_targets' = Remaining
            /\ UNCHANGED <<physicians, poolVars, made_progress, idx>>
    /\ UNCHANGED <<order, n_step_down_patients, paramVars, needed, non_new_physicians,
                   sorted_physicians, target_total_gains, target_additional_gains,
                   patients_to_distribute, gains_at_targets,
                   iteration, max_iterations, remaining_final, raised, call, phase3_entry, data_file>>

\* key of sorted_by_need (allocation.py:358-361)
need_key ==
    [n \in Names |->
        IF n \in DOMAIN target_total_gains
        THEN <<target_total_gains[n] - current_gain(n), physicians[n].total_patients>>
        ELSE <<0 - current_gain(n), physicians[n].total_patients>>]

Phase4_final_setup ==
    /\ pc = "phase4_final_setup"
    /\ remaining_final' = Remaining
    /\ IF Remaining > 0
       THEN /\ order' = StableSortReverse(sorted_physicians, need_key)
            /\ pc' = "phase4_final"
       ELSE /\ order' = roster
            /\ pc' = "phase5"
    /\ idx' = 1
    /\ UNCHANGED <<physicians, poolVars, n_step_down_patients, paramVars, needed,
                   non_new_physicians, sorted_physicians, target_total_gains,
                   target_additional_gains,
                   patients_to_distribute, gains_at_targets, iteration, max_iterations,
                   remaining_after_targets, made_progress, raised, call, phase3_entry, data_file>>

\* The pool one visit of the final pass takes from (allocation.py:364-390)
FinalSource(p) ==
    LET target == target_total_gains[p.name]
        actual_gain == p.total_patients - initial_counts[p.name]
    IN  IF p.is_new THEN "none"
        ELSE IF target - actual_gain <= 0 \/ ~can_take_patient(p) THEN "none"
        ELSE IF n_A_new_patients > 0 /\ actual_gain < target THEN "A"
        ELSE IF n_B_new_patients > 0 /\ actual_gain < target THEN "B"
        ELSE IF n_N_new_patients > 0 /\ actual_gain < target THEN "N"
        ELSE "none"

Phase4_final ==
    /\ pc = "phase4_final"
    /\ IF idx <= Len(order)
          /\ (physicians[order[idx]].is_new \/ ~(remaining_final <= 0))
       THEN LET n == order[idx]
                src == FinalSource(physicians[n])
            IN  /\ IF src # "none"
                   THEN /\ physicians' = [physicians EXCEPT ![n] = add_patient(@, FALSE)]
                        /\ TakeFrom(src, 1)
                        /\ remaining_final' = remaining_final - 1
                   ELSE UNCHANGED <<physicians, poolVars, remaining_final>>
                /\ idx' = idx + 1
                /\ UNCHANGED <<pc, order>>
       ELSE /\ pc' = "phase5"
            /\ order' = roster
            /\ idx' = 1
            /\ UNCHANGED <<physicians, poolVars, remaining_final>>
    /\ UNCHANGED <<n_step_down_patients, paramVars, needed, non_new_physicians,
                   sorted_physicians, target_total_gains, target_additional_gains,
                   patients_to_distribute, gains_at_targets,
                   iteration, max_iterations, remaining_after_targets,
                   made_progress, raised, call, phase3_entry, data_file>>

(* ---------------------- Phase 5: final verification -------------------- *)
\* for _ in range(k): physician.remove_patient()
RECURSIVE remove_patients(_, _)
remove_patients(p, k) ==
    IF k <= 0 THEN [p |-> p, raised |-> FALSE]
    ELSE LET r == remove_patient(p, FALSE)
         IN  IF r.raised THEN r ELSE remove_patients(r.p, k - 1)

\* Phase5Fix without the "gained > 0" check, the reversal removing at least
\* one unit
Phase5Fix_unguarded(p) ==
    LET initial_total == initial_counts[p.name]
        gained == p.total_patients - initial_total
    IN  IF p.is_new /\ initial_total >= new_start_number
        THEN LET r == remove_patients(p, Max(gained, 1))
             IN  IF r.raised THEN r
                 ELSE [p |-> set_total_patients(r.p, initial_total), raised |-> FALSE]
        ELSE [p |-> p, raised |-> FALSE]

\* The body of the Phase 5 loop for one physician (allocation.py:395-405)
Phase5Fix(p) ==
    LET initial_total == initial_counts[p.name]
        current_total == p.total_patients
        gained == current_total - initial_total
    IN  IF p.is_new /\ initial_total >= new_start_number /\ gained > 0
        THEN LET r == remove_patients(p, gained)
             IN  IF r.raised THEN r
                 ELSE [p |-> set_total_patients(r.p, initial_total), raised |-> FALSE]
        ELSE [p |-> p, raised |-> FALSE]

Phase5 ==
    /\ pc = "phase5"
    /\ IF idx <= Len(order)
       THEN LET r == Phase5Fix(physicians[order[idx]])
            IN  /\ physicians' = [physicians EXCEPT ![order[idx]] = r.p]
                /\ raised' = r.raised
                /\ pc' = IF r.raised THEN "raised" ELSE pc
                /\ idx' = idx + 1
       ELSE /\ pc' = "done"
            /\ UNCHANGED <<physicians, raised, idx>>
    /\ UNCHANGED <<poolVars, order, n_step_down_patients, paramVars, needed, p4Vars, call, phase3_entry, data_file>>

(* ------------------------------ results ------------------------------- *)
\* One entry of results (allocation.py:410-431)
result_of(p) ==
    LET original_total == initial_counts[p.name]
        original_stepdown == initial_stepdown_counts[p.name]
        gained == p.total_patients - original_total
        gained_stepdown == p.step_down_patients - original_stepdown
    IN  [name |-> p.name, yesterday |-> p.yesterday, team |-> p.team,
         is_new |-> p.is_new, is_buffer |-> p.is_buffer, is_working |-> p.is_working,
         original_total_patients |-> original_total,
         total_patients |-> p.total_patients,
         original_step_down |-> original_stepdown,
         step_down_patients |-> p.step_down_patients,
         transferred_patients |-> p.transferred_patients,
         traded_patients |-> p.traded_patients,
         gained |-> gained, gained_step_down |-> gained_stepdown,
         gained_plus_traded |-> gained + p.traded_patients]

\* results built from the Phase 4 list of eligible physicians instead of the
\* roster
results_eligible ==
    [i \in DOMAIN non_new_physicians |-> result_of(physicians[non_new_physicians[i]])]

\* results: one entry per physician of the list, in list order
results ==
    [i \in DOMAIN roster |-> result_of(physicians[roster[i]])]

Allocate ==
    \/ Phase1_B
    \/ Phase1_A
    \/ Phase2
    \/ Phase3
    \/ Phase3_fill
    \/ Phase4
    \/ Phase4_N
    \/ Phase4_targets
    \/ Phase4_ladder
    \/ Phase4_loop
    \/ Phase4_pass
    \/ Phase4_final_setup
    \/ Phase4_final
    \/ Phase5

(* --------------------------- specifications --------------------------- *)
\* Rosters named by the set names, the fields drawn from the given sets
Rosters(names, news, totals, stepdowns, buffers, workings) ==
    [names -> [is_new : news, team : Teams, total : totals, step_down : stepdowns,
               is_buffer : buffers, is_working : workings]]

MakeRoster(r) ==
    [n \in DOMAIN r |-> Physician(n, r[n].is_new, r[n].team, r[n].total, r[n].step_down,
                                  r[n].is_buffer, r[n].is_working)]

Two == {1, 2}
Minimums == {0, MaxUnits + 1}
Maximums == {MaxUnits - 1, MaxUnits + 1}
NewStarts == {0, MaxUnits}

\* Every roster of two working physicians without step-down load, every team
\* pool up to MaxPool, the total pool overstated, exact or understated.
Init ==
    \E r \in Rosters(Two, BOOLEAN, 0..MaxUnits, {0}, {FALSE}, {TRUE}),
       a \in 0..MaxPool, b \in 0..MaxPool, n \in 0..MaxPool,
       minimum \in Minimums, maximum \in Maximums, new_start \in NewStarts :
       \E tot \in {1, a + b + n} :
          Entry(MakeRoster(r), tot, a, b, n, MaxStepDown, new_start, minimum, maximum)

Next == Allocate

Spec == Init /\ [][Next]_vars

\* Step-down inputs: three physicians of every team, working or not, with
\* step-down load up to MaxStepDown, the first of them new; a step-down pool
\* from 0 to more than the roster can take; team pools that exceed what the
\* roster can take.
Three == {1, 2, 3}

InitSD ==
    \E r \in Rosters(Three, BOOLEAN, {0}, 0..MaxStepDown, {FALSE}, BOOLEAN),
       sd \in 0..(MaxStepDown + 2) :
       /\ \A k \in Three : r[k].is_new = (k = 1)
       /\ Entry(MakeRoster(r), 3 * MaxPool + 1, MaxPool + 1, MaxPool, MaxPool,
                sd, MaxUnits, 0, MaxUnits - 1)

SpecSD == InitSD /\ [][Next]_vars

\* Floor and onboarding inputs: two physicians of every team, new or not,
\* working or not, with team pools A and B either empty or larger than any
\* need, a minimum above every total, and a maximum below, inside and above
\* the range of the totals.
FloorPools == {0, MaxUnits + 1}
FloorMaximums == {0, MaxUnits - 1, MaxUnits + 1}

InitFloor ==
    \E r \in Rosters(Two, BOOLEAN, 0..MaxUnits, {0}, {FALSE}, BOOLEAN),
       a \in FloorPools, b \in FloorPools, n \in {0, MaxPool},
       maximum \in FloorMaximums :
       Entry(MakeRoster(r), a + b + n, a, b, n, MaxStepDown, MaxUnits,
             MaxUnits + 1, maximum)

SpecFloor == InitFloor /\ [][Next]_vars

\* Even-distribution inputs: two physicians of every team, new or not, buffer
\* or not, each team pool either empty or MaxUnits, no minimum to fill, and a
\* maximum one above the largest total, so that Phase 4 starts with up to
\* 3 * MaxUnits patients and physicians of unequal spare capacity.
EvenPools == {0, MaxUnits}

InitEven ==
    \E r \in Rosters(Two, BOOLEAN, 0..MaxUnits, {0}, BOOLEAN, {TRUE}),
       a \in EvenPools, b \in EvenPools, n \in EvenPools :
       Entry(MakeRoster(r), a + b + n, a, b, n, MaxStepDown, MaxUnits, 0,
             MaxUnits + 1)

SpecEven == InitEven /\ [][Next]_vars

\* The call as the interpreter runs it: allocate_patients is straight-line
\* sequential code, so a step that can be taken is taken.
SpecEvenFair == InitEven /\ [][Next]_vars /\ WF_vars(Next)

(* ------------------ a caller using the Physician methods ---------------- *)
CallAdd(n, is_step_down) ==
    /\ pc = "caller"
    /\ IF is_step_down
       THEN physicians[n].step_down_patients <= MaxStepDown
       ELSE physicians[n].total_patients <= MaxUnits
    /\ physicians' = [physicians EXCEPT ![n] = add_patient(@, is_step_down)]
    /\ raised' = FALSE
    /\ call' = [op |-> "add", who |-> n, is_step_down |-> is_step_down]
    /\ UNCHANGED <<poolVars, n_step_down_patients, paramVars, pc, order, idx,
                   needed, p4Vars, phase3_entry, data_file>>

CallRemove(n, is_step_down) ==
    /\ pc = "caller"
    /\ LET r == remove_patient(physicians[n], is_step_down)
       IN  /\ physicians' = [physicians EXCEPT ![n] = r.p]
           /\ raised' = r.raised
    /\ call' = [op |-> "remove", who |-> n, is_step_down |-> is_step_down]
    /\ UNCHANGED <<poolVars, n_step_down_patients, paramVars, pc, order, idx,
                   needed, p4Vars, phase3_entry, data_file>>

InitOps ==
    \E r \in Rosters(Two, {FALSE}, 0..MaxUnits, 0..MaxStepDown, {FALSE}, {TRUE}) :
       /\ \A k \in Two : r[k].team = "A"
       /\ EntryAt("caller", MakeRoster(r), 0, 0, 0, 0, 0, 0, 0, 0)

NextOps ==
    \E n \in Names, is_step_down \in BOOLEAN :
        \/ CallAdd(n, is_step_down)
        \/ CallRemove(n, is_step_down)

SpecOps == InitOps /\ [][NextOps]_vars

(* ------------------- data_manager: the physician table ------------------ *)
\* The names callers pass and the table holds, one of them with a leading blank
StoreNames == {"", "Ann", " Ann", "Bob"}

\* str(...).strip() on those names
strip(s) == IF s = " Ann" THEN "Ann" ELSE s

\* the order Python gives the stripped names
name_rank == [s \in {"", "Ann", "Bob"} |->
                 CASE s = "" -> 0 [] s = "Ann" -> 1 [] OTHER -> 2]

\* save_physicians: an empty list returns before the file is opened
save_physicians(file, physicians_list) ==
    IF physicians_list = <<>> THEN file
    ELSE [exists |-> TRUE,
          rows |-> [i \in DOMAIN physicians_list |->
                       [name |-> physicians_list[i].name,
                        team |-> physicians_list[i].team]]]

\* load_physicians: no file gives [], a row without a name is skipped, names
\* are stripped and the list is sorted by name
load_physicians(file) ==
    IF ~file.exists THEN <<>>
    ELSE LET parsed == [i \in DOMAIN file.rows |->
                           [name |-> strip(file.rows[i].name),
                            team |-> file.rows[i].team]]
             kept == SelectSeq(parsed, LAMBDA r : r.name # "")
         IN  StableSort(kept, [r \in Range(kept) |-> <<name_rank[r.name]>>])

\* data_manager.add_physician: DATA_FILE afterwards
dm_add_physician(file, physician_data) ==
    LET loaded == load_physicians(file)
        existing_names == {loaded[i].name : i \in DOMAIN loaded}
    IN  IF physician_data.name \notin existing_names
        THEN save_physicians(file, Append(loaded, physician_data))
        ELSE file

\* data_manager.delete_physician: DATA_FILE afterwards
dm_delete_physician(file, name) ==
    LET loaded == load_physicians(file)
    IN  save_physicians(file, SelectSeq(loaded, LAMBDA p : p.name # name))

StoreAdd(physician_data) ==
    /\ pc = "store"
    /\ Len(load_physicians(data_file)) <= MaxUnits
    /\ data_file' = dm_add_physician(data_file, physician_data)
    /\ call' = [op |-> "add_physician", who |-> physician_data.name,
                is_step_down |-> FALSE]
    /\ UNCHANGED <<physicians, poolVars, n_step_down_patients, paramVars, pc, order,
                   idx, needed, p4Vars, raised, phase3_entry>>

StoreDelete(name) ==
    /\ pc = "store"
    /\ data_file' = dm_delete_physician(data_file, name)
    /\ call' = [op |-> "delete_physician", who |-> name, is_step_down |-> FALSE]
    /\ UNCHANGED <<physicians, poolVars, n_step_down_patients, paramVars, pc, order,
                   idx, needed, p4Vars, raised, phase3_entry>>

\* No DATA_FILE yet; every table is built by add_physician
InitStore == EntryAt("store", <<>>, 0, 0, 0, 0, 0, 0, 0, 0)

NextStore ==
    \E name \in StoreNames, team \in {"A", "B"} :
        \/ StoreAdd([name |-> name, team |-> team])
        \/ StoreDelete(name)

SpecStore == InitStore /\ [][NextStore]_vars

(* ---------------------- app.py: the physicians dict --------------------- *)
\* prototypes/physician.py, the class app.py imports
ProtoPhysician(name, team, is_new) ==
    [name |-> name, is_new |-> is_new, team |-> team,
     total_patients |-> 0, step_down_patients |-> 0]

\* Physician.add_patient of the prototype: no check at all
proto_add_patient(p, is_step_down) ==
    [p EXCEPT !.total_patients = @ + 1,
              !.step_down_patients = IF is_step_down THEN @ + 1 ELSE @]

\* Physician.remove_patient of the prototype raises only on total_patients < 1
proto_remove_raises(p) == p.total_patients < 1

proto_remove_patient(p, is_step_down) ==
    [p EXCEPT !.total_patients = @ - 1,
              !.step_down_patients = IF is_step_down THEN @ - 1 ELSE @]

\* f"{team}_{len([p for p in physicians.values() if p.team == team]) + 1}"
new_pid(store, team) ==
    team \o "_" \o ToString(Cardinality({q \in DOMAIN store : store[q].team = team}) + 1)

\* The ids a request can name, stored or not
Pids == {team \o "_" \o ToString(k) : team \in {"A", "B"}, k \in 1..(MaxUnits + 1)}

Response(op, who, is_step_down, status) ==
    [op |-> op, who |-> who, is_step_down |-> is_step_down, status |-> status]

appFrame == <<poolVars, n_step_down_patients, paramVars, pc, order, idx, needed,
              p4Vars, raised, phase3_entry, data_file>>

\* POST /api/physicians
app_add_physician(raw_name, team, is_new) ==
    /\ pc = "app"
    /\ Cardinality(DOMAIN physicians) < MaxUnits
    /\ LET name == strip(raw_name)
           pid == new_pid(physicians, team)
       IN  IF name = ""
           THEN /\ call' = Response("add_physician", "", FALSE, 400)
                /\ UNCHANGED physicians
           ELSE /\ physicians' = [q \in DOMAIN physicians \cup {pid} |->
                                     IF q = pid THEN ProtoPhysician(name, team, is_new)
                                     ELSE physicians[q]]
                /\ call' = Response("add_physician", pid, FALSE, 201)
    /\ UNCHANGED appFrame

\* POST /api/physicians/<pid>/add-patient
add_patient_to_physician(pid, is_step_down) ==
    /\ pc = "app"
    /\ IF pid \notin DOMAIN physicians
       THEN /\ call' = Response("add_patient", pid, is_step_down, 404)
            /\ UNCHANGED physicians
       ELSE /\ physicians[pid].total_patients < MaxUnits
            /\ physicians[pid].step_down_patients < MaxStepDown
            /\ physicians' = [physicians EXCEPT
                                 ![pid] = proto_add_patient(@, is_step_down)]
            /\ call' = Response("add_patient", pid, is_step_down, 200)
    /\ UNCHANGED appFrame

\* POST /api/physicians/<pid>/remove-patient
remove_patient_from_physician(pid, is_step_down) ==
    /\ pc = "app"
    /\ IF pid \notin DOMAIN physicians
       THEN /\ call' = Response("remove_patient", pid, is_step_down, 404)
            /\ UNCHANGED physicians
       ELSE IF proto_remove_raises(physicians[pid])
       THEN /\ call' = Response("remove_patient", pid, is_step_down, 400)
            /\ UNCHANGED physicians
       ELSE /\ physicians[pid].step_down_patients > -MaxStepDown
            /\ physicians' = [physicians EXCEPT
                                 ![pid] = proto_remove_patient(@, is_step_down)]
            /\ call' = Response("remove_patient", pid, is_step_down, 200)
    /\ UNCHANGED appFrame

\* DELETE /api/physicians/<pid>
app_delete_physician(pid) ==
    /\ pc = "app"
    /\ IF pid \notin DOMAIN physicians
       THEN /\ call' = Response("delete_physician", pid, FALSE, 404)
            /\ UNCHANGED physicians
       ELSE /\ physicians' = [q \in DOMAIN physicians \ {pid} |-> physicians[q]]
            /\ call' = Response("delete_physician", pid, FALSE, 200)
    /\ UNCHANGED appFrame

\* physicians: dict[str, Physician] = {}
InitApp == EntryAt("app", <<>>, 0, 0, 0, 0, 0, 0, 0, 0)

NextApp ==
    \/ \E raw_name \in StoreNames, team \in {"A", "B"} :
           app_add_physician(raw_name, team, FALSE)
    \/ \E pid \in Pids, is_step_down \in BOOLEAN :
           \/ add_patient_to_physician(pid, is_step_down)
           \/ remove_patient_from_physician(pid, is_step_down)
    \/ \E pid \in Pids : app_delete_physician(pid)

SpecApp == InitApp /\ [][NextApp]_vars

(* ------------------------------- claims -------------------------------- *)
gain(n) == physicians[n].total_patients - initial_counts[n]
stepdown_gain(n) == physicians[n].step_down_patients - initial_stepdown_counts[n]
SumGains == SumOver([n \in Names |-> gain(n)], Names)
SumStepDownGains == SumOver([n \in Names |-> stepdown_gain(n)], Names)

\* C1: conservation of ordinary units.  In every state of a run, and so when it
\* returns, the gains of all physicians since the snapshot plus the remaining
\* total pool equal the total pool the call was given.
C1_Conservation ==
    SumGains + n_total_new_patients = input.n_total_new_patients

C1_Witness ==
    /\ pc = "done"
    /\ SumGains >= 2
    /\ n_total_new_patients < input.n_total_new_patients

\* C2 (as claimed): after the call returns every physician's total_patients is
\* at most maximum_patients, for every roster.
C2_CapacityAnyRoster ==
    pc = "done" => \A n \in Names : physicians[n].total_patients <= maximum_patients

\* C2 (amended): after the call returns every physician's total_patients is at
\* most the larger of maximum_patients and its snapshotted initial value, so a
\* physician that started at or below maximum_patients ends at or below it.
C2_Capacity ==
    pc = "done" =>
        \A n \in Names :
            physicians[n].total_patients <= Max(maximum_patients, initial_counts[n])

C2_Witness ==
    /\ pc = "done"
    /\ \E n \in Names :
          /\ gain(n) > 0
          /\ physicians[n].total_patients = maximum_patients
          /\ ~physicians[n].is_new
    /\ Remaining > 0

\* C3: no pool counter goes negative: each of the five pool counters is >= 0
\* in every state of every run started with all five >= 0.
C3_NoNegativePool ==
    /\ n_total_new_patients >= 0
    /\ n_A_new_patients >= 0
    /\ n_B_new_patients >= 0
    /\ n_N_new_patients >= 0
    /\ n_step_down_patients >= 0

\* C4: lockstep of the total pool.  In every state of a run what the total
\* pool has lost equals what the three team pools have lost together; as the
\* equality holds before and after every step, every step changes the total
\* pool by exactly what it takes from the team pools.
C4_Lockstep ==
    input.n_total_new_patients - n_total_new_patients =
        (input.n_A_new_patients - n_A_new_patients)
      + (input.n_B_new_patients - n_B_new_patients)
      + (input.n_N_new_patients - n_N_new_patients)

C4_Witness ==
    /\ pc = "done"
    /\ n_A_new_patients < input.n_A_new_patients
    /\ n_N_new_patients < input.n_N_new_patients

\* C5: conservation of step-down units.  In every state the step-down gains of
\* all physicians plus the remaining step-down pool equal the step-down pool
\* the call was given, and until Phase 1 has ended the four ordinary pools are
\* those the call was given.
C5_StepDownConservation ==
    /\ SumStepDownGains + n_step_down_patients = input.n_step_down_patients
    /\ (pc \in {"phase1_B", "phase1_A"} \/ (pc = "phase2" /\ idx = 1)) =>
          /\ n_total_new_patients = input.n_total_new_patients
          /\ n_A_new_patients = input.n_A_new_patients
          /\ n_B_new_patients = input.n_B_new_patients
          /\ n_N_new_patients = input.n_N_new_patients

C5_Witness ==
    /\ pc = "phase2"
    /\ idx = 1
    /\ SumStepDownGains >= 2
    /\ n_step_down_patients >= 1

\* C6: step-down single gain.  In every state every physician's step-down gain
\* since the snapshot is 0 or 1, whatever the size of the step-down pool.
C6_StepDownSingleGain ==
    \A n \in Names : stepdown_gain(n) \in {0, 1}

C6_Witness ==
    /\ pc = "done"
    /\ n_step_down_patients >= 1
    /\ \E n \in Names :
          /\ stepdown_gain(n) = 1
          /\ initial_stepdown_counts[n] >= 1

\* C7: correction.  When the call returns, every new physician whose total at
\* the time of the snapshot (the total it was passed in with) is >=
\* new_start_number has exactly that total.
initial_total(n) == input.physicians[n].total_patients

C7_NewAtStartUnchanged ==
    pc = "done" =>
        \A n \in Names :
            (physicians[n].is_new /\ initial_total(n) >= new_start_number)
                => physicians[n].total_patients = initial_total(n)

C7_Witness ==
    /\ pc = "done"
    /\ Remaining > 0
    /\ \E n \in Names :
          /\ physicians[n].is_new
          /\ initial_total(n) >= new_start_number
          /\ initial_counts[n] = initial_total(n)
          /\ can_take_patient(physicians[n])
          /\ PoolOf(physicians[n].team) > 0

\* C9: allocate_patients never raises: no run calls remove_patient on a
\* physician without patients, so no state has an exception raised.
C9_NeverRaises ==
    /\ ~raised
    /\ pc # "raised"

C9_Witness ==
    /\ pc = "done"
    /\ \E n \in Names :
          /\ physicians[n].is_new
          /\ initial_counts[n] >= new_start_number
          /\ physicians[n].total_patients = 0

\* C10: invalid decrement fails loudly.  Every call remove_patient(is_step_down)
\* on a physician with none of the requested type raises and leaves both
\* counters as they were; every other call does not raise, decrements the
\* requested counter by one and leaves the other unchanged.
C10_RemovePatient ==
    [][\A n \in Names, f \in BOOLEAN :
          call' = [op |-> "remove", who |-> n, is_step_down |-> f] =>
             LET p == physicians[n]
                 q == physicians'[n]
                 has_none == IF f THEN p.step_down_patients < 1
                                  ELSE p.total_patients < 1
             IN  IF has_none
                 THEN raised' /\ q = p
                 ELSE /\ ~raised'
                      /\ q.step_down_patients = p.step_down_patients - (IF f THEN 1 ELSE 0)
                      /\ q.total_patients = p.total_patients - (IF f THEN 0 ELSE 1)
      ]_vars

C10_Witness ==
    /\ call.op = "remove"
    /\ call.is_step_down
    /\ raised
    /\ physicians[call.who].total_patients >= 1
    /\ physicians[call.who].step_down_patients = 0

\* C11: minimum-floor exactness.  Whenever Phase 2 visits a non-new physician
\* whose total t is <= minimum_patients - 2 while its own team pool holds at
\* least minimum_patients - t and maximum_patients >= minimum_patients, the
\* visit leaves it at exactly minimum_patients; and no visit of Phase 2 changes
\* any other physician, so that is its total when Phase 2 ends.
C11_MinimumFloor ==
    [][(pc = "phase2" /\ idx <= Len(order)) =>
          LET n == order[idx]
              p == physicians[n]
              t == p.total_patients
          IN  /\ (/\ ~p.is_new
                   /\ t <= minimum_patients - 2
                   /\ PoolOf(p.team) >= minimum_patients - t
                   /\ maximum_patients >= minimum_patients)
                     => physicians'[n].total_patients = minimum_patients
              /\ \A m \in Names \ {n} : physicians'[m] = physicians[m]
      ]_vars

C11_Witness ==
    /\ pc = "phase2"
    /\ maximum_patients >= minimum_patients
    /\ \E i \in 1..(idx - 1) :
          /\ ~physicians[order[i]].is_new
          /\ initial_counts[order[i]] <= minimum_patients - 2
          /\ gain(order[i]) >= 2
          /\ physicians[order[i]].total_patients = minimum_patients
          /\ PoolOf(physicians[order[i]].team) >= 0

\* The while loop of Phase 3 has been entered for n and has ended
Phase3Ended(n) ==
    /\ n \in DOMAIN phase3_entry
    /\ ~(pc = "phase3_fill" /\ order[idx] = n)

\* C12 (as claimed): onboarding exactness for every maximum_patients.  A new
\* physician whose total was below new_start_number when Phase 3 reached it,
\* with its own team pool then holding at least new_start_number - total, has
\* exactly new_start_number once its loop has ended and from then on.
C12_OnboardingAnyMaximum ==
    \A n \in Names :
        (/\ Phase3Ended(n)
         /\ phase3_entry[n].total < new_start_number
         /\ phase3_entry[n].pool >= new_start_number - phase3_entry[n].total)
            => physicians[n].total_patients = new_start_number

\* C12 (amended): the same, for maximum_patients >= new_start_number.
C12_Onboarding ==
    \A n \in Names :
        (/\ Phase3Ended(n)
         /\ phase3_entry[n].total < new_start_number
         /\ phase3_entry[n].pool >= new_start_number - phase3_entry[n].total
         /\ maximum_patients >= new_start_number)
            => physicians[n].total_patients = new_start_number

C12_Witness ==
    /\ pc = "phase4"
    /\ maximum_patients >= new_start_number
    /\ \E n \in Names :
          /\ Phase3Ended(n)
          /\ phase3_entry[n].total = 0
          /\ phase3_entry[n].pool >= new_start_number
          /\ new_start_number >= 2
          /\ physicians[n].total_patients = new_start_number

\* C13: fairness bound on targets.  Once Phase 4 has computed the target total
\* gains, every eligible physician has one, any two of them differ by at most
\* 1, and, as long as no total has moved since the computation, a physician
\* that sorts earlier (lower snapshotted initial total, ties by current total)
\* never has a smaller target than one that sorts later.
C13_TargetFairness ==
    (pc \in {"phase4_loop", "phase4_pass", "phase4_final_setup", "phase4_final"}) =>
        /\ DOMAIN target_total_gains = Range(non_new_physicians)
        /\ \A m, n \in DOMAIN target_total_gains :
              target_total_gains[m] - target_total_gains[n] \in {-1, 0, 1}
        /\ (pc = "phase4_loop" /\ iteration = 0) =>
              \A m, n \in DOMAIN target_total_gains :
                  LexLess(initial_key[m], initial_key[n])
                      => target_total_gains[m] >= target_total_gains[n]

C13_Witness ==
    /\ pc = "phase4_loop"
    /\ iteration = 0
    /\ \E m, n \in DOMAIN target_total_gains :
          /\ initial_counts[m] < initial_counts[n]
          /\ m > n
          /\ target_total_gains[m] = target_total_gains[n] + 1
          /\ target_total_gains[n] >= 1

\* C14: frame.  In every state of a run the roster holds the physicians the
\* call was given, each with every field other than total_patients and
\* step_down_patients as passed in; and when the call returns, results holds
\* one entry per physician passed in, in the order of the list passed in, each
\* carrying that physician's unchanged fields.
C14_Frame ==
    /\ DOMAIN physicians = DOMAIN input.physicians
    /\ \A n \in Names :
          [physicians[n] EXCEPT
               !.total_patients = input.physicians[n].total_patients,
               !.step_down_patients = input.physicians[n].step_down_patients]
              = input.physicians[n]
    /\ pc = "done" =>
          /\ Len(results) = Len(input.physicians)
          /\ \A i \in DOMAIN results :
                LET q == input.physicians[i]
                IN  /\ results[i].name = q.name
                    /\ results[i].team = q.team
                    /\ results[i].is_new = q.is_new
                    /\ results[i].is_buffer = q.is_buffer
                    /\ results[i].is_working = q.is_working
                    /\ results[i].yesterday = q.yesterday
                    /\ results[i].transferred_patients = q.transferred_patients
                    /\ results[i].traded_patients = q.traded_patients

C14_Witness ==
    /\ pc = "done"
    /\ Len(results) = 3
    /\ \E m, n \in Names :
          /\ gain(m) > 0
          /\ stepdown_gain(n) > 0
          /\ physicians[m].team # physicians[n].team
    /\ \E n \in Names : ~physicians[n].is_working

\* C15: working-only eligibility.  In every state of a run a physician with
\* is_working = FALSE has the total_patients and step_down_patients of the
\* snapshot.
C15_WorkingOnly ==
    \A n \in Names :
        ~physicians[n].is_working => (gain(n) = 0 /\ stepdown_gain(n) = 0)

\* C16: Phase 1 recipients and team precedence.  In every state a physician
\* that has gained a step-down patient is a working Team B physician, or a
\* working Team A physician while every working Team B physician has gained
\* one; so Team N physicians never gain one.
C16_StepDownRecipients ==
    \A n \in Names :
        stepdown_gain(n) > 0 =>
            /\ physicians[n].is_working
            /\ \/ physicians[n].team = "B"
               \/ /\ physicians[n].team = "A"
                  /\ \A m \in Names :
                        (physicians[m].team = "B" /\ physicians[m].is_working)
                            => stepdown_gain(m) >= 1

C16_Witness ==
    /\ pc = "done"
    /\ n_step_down_patients >= 1
    /\ \E a, b, n \in Names :
          /\ physicians[a].team = "A" /\ stepdown_gain(a) = 1
          /\ physicians[b].team = "B" /\ stepdown_gain(b) = 1
          /\ physicians[n].team = "N" /\ physicians[n].is_working
          /\ stepdown_gain(n) = 0

\* C17: Phase 1 ordering.  In every state, if a working physician has gained a
\* step-down patient then so has every working physician of the same team
\* whose snapshotted step_down_patients is strictly smaller, and every one
\* with an equal snapshotted count that stands earlier in the roster.
C17_StepDownOrder ==
    \A m, n \in Names :
        (/\ stepdown_gain(n) > 0
         /\ physicians[n].is_working /\ physicians[m].is_working
         /\ physicians[m].team = physicians[n].team
         /\ \/ initial_stepdown_counts[m] < initial_stepdown_counts[n]
            \/ (initial_stepdown_counts[m] = initial_stepdown_counts[n] /\ m < n))
            => stepdown_gain(m) > 0

C17_Witness ==
    /\ pc = "done"
    /\ \E m, n \in Names :
          /\ m < n
          /\ physicians[m].team = physicians[n].team
          /\ physicians[m].is_working /\ physicians[n].is_working
          /\ initial_stepdown_counts[m] > initial_stepdown_counts[n]
          /\ stepdown_gain(n) = 1
          /\ stepdown_gain(m) = 0
    /\ \E m, n \in Names :
          /\ m < n
          /\ physicians[m].team = physicians[n].team
          /\ physicians[m].is_working /\ physicians[n].is_working
          /\ initial_stepdown_counts[m] = initial_stepdown_counts[n]
          /\ stepdown_gain(m) = 1
          /\ stepdown_gain(n) = 0

\* C18: Phase 1 capacity eligibility.  In every state a physician whose
\* total_patients was >= maximum_patients when Phase 1 ran (Phase 1 leaves
\* total_patients alone, so this is its snapshotted total) has gained no
\* step-down patient.
C18_StepDownCapacity ==
    \A n \in Names :
        initial_counts[n] >= maximum_patients => stepdown_gain(n) = 0

\* What a visit of Phase 2 that gives the physician visited g patients does:
\* the g patients come out of its own team pool (and the total pool), no
\* other team pool and no other physician changes, and the loop moves on to
\* the next physician of the roster.
Phase2Gives(n, g) ==
    LET p == physicians[n]
    IN  /\ order = roster
        /\ idx' = idx + 1
        /\ physicians' = [physicians EXCEPT ![n].total_patients = @ + g]
        /\ n_A_new_patients' = n_A_new_patients - (IF p.team = "A" THEN g ELSE 0)
        /\ n_B_new_patients' = n_B_new_patients - (IF p.team = "B" THEN g ELSE 0)
        /\ n_N_new_patients' = n_N_new_patients - (IF p.team = "N" THEN g ELSE 0)
        /\ n_step_down_patients' = n_step_down_patients

\* min(minimum_patients - total, own team pool, maximum_patients - total)
Phase2Least(p) ==
    Min(Min(minimum_patients - p.total_patients, PoolOf(p.team)),
        maximum_patients - p.total_patients)

\* C19 (as claimed): Phase 2 amount and source.  Every visit of Phase 2, taken
\* in roster order, gives the physician visited exactly g patients out of its
\* own team pool, g = min(minimum_patients - total, own pool, maximum_patients
\* - total) for a non-new physician with total <= minimum_patients - 2 and
\* g = 0 for any other.
C19_Phase2AmountAnyTotal ==
    [][(pc = "phase2" /\ idx <= Len(order)) =>
          LET p == physicians[order[idx]]
              g == IF ~p.is_new /\ p.total_patients <= minimum_patients - 2
                   THEN Phase2Least(p) ELSE 0
          IN  Phase2Gives(order[idx], g)
      ]_vars

\* C19 (amended): the same with g = max(0, min(minimum_patients - total, own
\* pool, maximum_patients - total)): a physician already above
\* maximum_patients is given nothing.
C19_Phase2Amount ==
    [][(pc = "phase2" /\ idx <= Len(order)) =>
          LET p == physicians[order[idx]]
              g == IF ~p.is_new /\ p.total_patients <= minimum_patients - 2
                   THEN Max(0, Phase2Least(p)) ELSE 0
          IN  Phase2Gives(order[idx], g)
      ]_vars

C19_Witness ==
    /\ pc = "phase2"
    /\ idx = 3
    /\ \E m, n \in Names :
          /\ ~physicians[n].is_new
          /\ gain(n) >= 1
          /\ gain(n) = maximum_patients - initial_counts[n]
          /\ gain(n) < minimum_patients - initial_counts[n]
          /\ PoolOf(physicians[n].team) > 0
          /\ ~physicians[m].is_new
          /\ initial_counts[m] = minimum_patients - 1
          /\ gain(m) = 0
          /\ PoolOf(physicians[m].team) > 0

\* The pool a unit for a physician of team t is due from: its own team pool
\* if that holds anything, else the first non-empty pool of A, B, N
Phase3Due(t) ==
    IF PoolOf(t) > 0 THEN t
    ELSE IF n_A_new_patients > 0 THEN "A"
    ELSE IF n_B_new_patients > 0 THEN "B"
    ELSE "N"

\* C20: Phase 3 pool order.  Every step of the loop of a new physician either
\* gives it one patient, taken from its own team pool if that pool is > 0 and
\* otherwise from the first non-empty pool in the order A, B, N, leaving the
\* other two team pools as they were, and stays in the loop; or ends the loop
\* and changes nothing.  It ends the loop exactly when the physician is at
\* new_start_number or above, at maximum_patients or above, or the three team
\* pools are all 0.  A step of Phase 3 outside such a loop gives nothing.
C20_Phase3PoolOrder ==
    [][/\ pc = "phase3" => UNCHANGED <<physicians, poolVars>>
       /\ pc = "phase3_fill" =>
             LET n == order[idx]
                 p == physicians[n]
                 stop == \/ p.total_patients >= new_start_number
                         \/ p.total_patients >= maximum_patients
                         \/ Remaining = 0
                 src == Phase3Due(p.team)
             IN  /\ p.is_new
                 /\ IF stop
                    THEN /\ pc' = "phase3"
                         /\ UNCHANGED <<physicians, poolVars>>
                    ELSE /\ pc' = "phase3_fill"
                         /\ order[idx'] = n
                         /\ physicians' = [physicians EXCEPT ![n].total_patients = @ + 1]
                         /\ n_A_new_patients' = n_A_new_patients - (IF src = "A" THEN 1 ELSE 0)
                         /\ n_B_new_patients' = n_B_new_patients - (IF src = "B" THEN 1 ELSE 0)
                         /\ n_N_new_patients' = n_N_new_patients - (IF src = "N" THEN 1 ELSE 0)
      ]_vars

C20_Witness ==
    /\ pc = "phase4"
    /\ \E n \in Names :
          /\ physicians[n].is_new
          /\ physicians[n].team = "N"
          /\ gain(n) = 2
          /\ input.n_N_new_patients = 1 /\ n_N_new_patients = 0
          /\ input.n_A_new_patients = 0
          /\ n_B_new_patients = input.n_B_new_patients - 1

\* C21: Phase 4 N-pool priority.  When the Team N priority step of Phase 4 has
\* ended, either the Team N pool is 0 or every non-new Team N physician has
\* total_patients = maximum_patients.
C21_TeamNPriority ==
    pc = "phase4_targets" =>
        \/ n_N_new_patients = 0
        \/ \A n \in Names :
              (physicians[n].team = "N" /\ ~physicians[n].is_new)
                  => physicians[n].total_patients = maximum_patients

\* C22: Phase 4 cross-pool rule.  Every visit of the targeted distribution
\* loop that gives the physician a patient takes it from the physician's own
\* team pool if that pool is > 0, and otherwise from the first non-empty pool
\* in the order A, B, N, leaving the other two team pools as they were; so a
\* physician, buffer or not, receives from another team's pool only when its
\* own is 0.  A visit that gives nothing changes no pool.
C22_CrossPoolRule ==
    [][(pc = "phase4_pass" /\ idx <= Len(order)) =>
          LET n == order[idx]
              p == physicians[n]
              src == Phase3Due(p.team)
          IN  \/ /\ physicians' = [physicians EXCEPT ![n].total_patients = @ + 1]
                 /\ Remaining > 0
                 /\ n_A_new_patients' = n_A_new_patients - (IF src = "A" THEN 1 ELSE 0)
                 /\ n_B_new_patients' = n_B_new_patients - (IF src = "B" THEN 1 ELSE 0)
                 /\ n_N_new_patients' = n_N_new_patients - (IF src = "N" THEN 1 ELSE 0)
              \/ UNCHANGED <<physicians, poolVars>>
      ]_vars

C22_Witness ==
    /\ pc = "done"
    /\ \E m, n \in Names :
          /\ physicians[m].is_new /\ gain(m) = 0
          /\ ~physicians[n].is_new
          /\ physicians[n].is_buffer
          /\ physicians[n].team = "B"
          /\ gain(n) = 3
          /\ input.n_A_new_patients = 2 /\ n_A_new_patients = 1
          /\ input.n_B_new_patients = 2 /\ n_B_new_patients = 0

\* C23: termination and loop bound.  Every call returns; the targeted
\* distribution loop is entered with max_iterations = 3 * (the three team
\* pools together) and iteration = 0, never counts more than max_iterations
\* passes, records in made_progress whether the pass under way has assigned a
\* patient, and is left at the end of the first pass that assigned none.
C23_Termination ==
    /\ <>(pc = "done")
    /\ [](pc \in {"phase4_loop", "phase4_pass"} =>
             (iteration <= max_iterations /\ patients_to_distribute = 0))
    /\ [][/\ (pc = "phase4_ladder" /\ pc' = "phase4_loop") =>
              (max_iterations' = 3 * Remaining /\ iteration' = 0)
          /\ (pc = "phase4_loop" /\ pc' = "phase4_pass") =>
              (iteration' = iteration + 1 /\ ~made_progress')
          /\ (pc = "phase4_pass" /\ idx <= Len(order)) =>
              (made_progress' = (made_progress \/ physicians' # physicians))
          /\ (pc = "phase4_pass" /\ idx > Len(order) /\ ~made_progress) =>
              pc' = "phase4_final_setup"
          ]_vars

C23_Witness ==
    /\ pc = "phase4_final_setup"
    /\ iteration >= 2
    /\ iteration < max_iterations
    /\ ~made_progress
    /\ Remaining > 0

\* C24: Phase 4 leaves no assignable unit behind.  When Phase 4 has ended
\* after finding at least one eligible physician, either the three team pools
\* are all 0 (as they are if Phase 4 was entered with nothing to distribute
\* and as the claim requires otherwise) or no non-new physician has
\* total_patients < maximum_patients.
C24_NothingLeftBehind ==
    (pc = "phase5" /\ idx = 1 /\ non_new_physicians # <<>>) =>
        \/ Remaining = 0
        \/ \A n \in Names :
              ~physicians[n].is_new => ~can_take_patient(physicians[n])

\* Phase 4 has ended after computing targets
Phase4EndedWithTargets ==
    pc = "phase5" /\ idx = 1 /\ target_total_gains # <<>>

\* When the targets were computed no eligible physician had gained more than
\* its target, and each had room for what its target still asked for
Unconstrained ==
    \A n \in DOMAIN target_total_gains :
        /\ gains_at_targets[n] <= target_total_gains[n]
        /\ (initial_counts[n] + gains_at_targets[n])
              + (target_total_gains[n] - gains_at_targets[n]) <= maximum_patients

\* C25: the equal split is reached when unconstrained.  If the targets were
\* computed under those two conditions, then when Phase 4 has ended every
\* eligible physician's gain since the snapshot equals its target total gain
\* and the three team pools are 0.
C25_EqualSplit ==
    (Phase4EndedWithTargets /\ Unconstrained) =>
        /\ \A n \in DOMAIN target_total_gains : gain(n) = target_total_gains[n]
        /\ n_A_new_patients = 0 /\ n_B_new_patients = 0 /\ n_N_new_patients = 0

C25_Witness ==
    /\ Phase4EndedWithTargets
    /\ Unconstrained
    /\ \E m, n \in DOMAIN target_total_gains :
          /\ gains_at_targets[m] = 1
          /\ gain(m) = 2
          /\ gains_at_targets[n] = 0
          /\ gain(n) = 2
          /\ physicians[n].team = "B"
          /\ input.n_B_new_patients = 0

\* C26: Phase 5 never reverses anything.  No step of a run lowers any
\* physician's total_patients; in every state a new physician passed in at or
\* above new_start_number has gained nothing, so the reversal of Phase 5 finds
\* nothing to undo; and every physician's total_patients is at least what it
\* was passed in with.
C26_NoReversal ==
    /\ [][\A n \in Names :
             physicians'[n].total_patients >= physicians[n].total_patients]_vars
    /\ [](\A n \in Names :
             /\ physicians[n].total_patients >= initial_total(n)
             /\ (physicians[n].is_new /\ initial_total(n) >= new_start_number)
                   => physicians[n].total_patients = initial_total(n))

C26_Witness ==
    /\ pc = "done"
    /\ \E m, n \in Names :
          /\ physicians[n].is_new
          /\ initial_total(n) >= new_start_number
          /\ initial_total(n) <= minimum_patients - 2
          /\ input.n_A_new_patients >= 1
          /\ physicians[n].team = "A"
          /\ can_take_patient(physicians[n])
          /\ ~physicians[m].is_new
          /\ gain(m) >= 1

\* C27: is_buffer does not influence the allocation.  is_buffer is read only
\* where the targeted distribution loop chooses the pool for the physician it
\* visits; in every state of that loop, for every physician of its list, the
\* pool chosen is the same with the flag set and with it cleared.  Two runs
\* on inputs that differ only in is_buffer flags therefore take the same
\* steps and end with the same totals, step-down counts and pools.
C27_BufferIrrelevant ==
    pc = "phase4_pass" =>
        \A n \in Range(sorted_physicians) :
            Phase4Source([physicians[n] EXCEPT !.is_buffer = TRUE])
                = Phase4Source([physicians[n] EXCEPT !.is_buffer = FALSE])

C27_Witness ==
    /\ pc = "phase4_pass"
    /\ idx <= Len(order)
    /\ \E m \in Range(sorted_physicians) :
          /\ physicians[m].is_buffer
          /\ PoolOf(physicians[m].team) > 0
          /\ Phase4Source(physicians[m]) = physicians[m].team
          /\ physicians[m].team = "B"
          /\ n_A_new_patients > 0
    /\ ~physicians[order[idx]].is_buffer
    /\ PoolOf(physicians[order[idx]].team) = 0
    /\ Phase4Source(physicians[order[idx]]) # "none"

\* C28: delete_physician really deletes.  After every call
\* delete_physician(name), load_physicians() returns no record with that name.
C28_DeleteDeletes ==
    [][\A name \in StoreNames :
          call' = [op |-> "delete_physician", who |-> name, is_step_down |-> FALSE] =>
             \A i \in DOMAIN load_physicians(data_file') :
                 load_physicians(data_file')[i].name # name
      ]_vars


\* C29: counters stay non-negative through the HTTP API.  After every request
\* each stored physician has total_patients >= 0 and step_down_patients >= 0,
\* and a remove-patient request for a unit the physician has none of (no
\* patient at all, or no step-down patient when is_step_down is set) is
\* answered with an error and changes no counter.
C29_CountersNonNegative ==
    [][/\ \A q \in DOMAIN physicians' :
             /\ physicians'[q].total_patients >= 0
             /\ physicians'[q].step_down_patients >= 0
       /\ \A pid \in DOMAIN physicians, is_step_down \in BOOLEAN :
             ( /\ call'.op = "remove_patient"
               /\ call'.who = pid
               /\ call'.is_step_down = is_step_down
               /\ \/ physicians[pid].total_patients < 1
                  \/ is_step_down /\ physicians[pid].step_down_patients < 1 )
             => (call'.status >= 400 /\ physicians' = physicians)
      ]_vars

\* C30: adding a physician never replaces an existing one.  Every POST
\* /api/physicians answered 201 stores the physician under an id that was not
\* in use, so the store grows by exactly 1 and every physician stored before
\* is still there, unchanged.
C30_AddNeverReplaces ==
    [][(call'.op = "add_physician" /\ call'.status = 201) =>
          /\ call'.who \notin DOMAIN physicians
          /\ Cardinality(DOMAIN physicians') = Cardinality(DOMAIN physicians) + 1
          /\ \A q \in DOMAIN physicians :
                q \in DOMAIN physicians' /\ physicians'[q] = physicians[q]
      ]_vars

=============================================================================
